---- MODULE Spec2Model ----
(***************************************************************************)
(* Echo Image Viewer: the sandboxed path resolution, the edit and upload   *)
(* handlers and the auth middleware of backend/main.py, the edit pipeline  *)
(* of backend/image_processor.py and the session store of backend/auth.py. *)
(*                                                                         *)
(* A string is a sequence of tokens; the token "/" is the separator and    *)
(* every other token is a piece of a file name, so that string             *)
(* concatenation (the f-strings of the code) is \o and splitting on "/" is *)
(* computed.  A name is a non-empty string without "/".  A path is what    *)
(* pathlib keeps of a string: its root (0 none, 1 "/", 2 "//") and its     *)
(* parts.  The file system is a fixed tree of directories and directory    *)
(* symlinks (targets canonical) and a changing map of regular files.       *)
(***************************************************************************)
EXTENDS Integers, Sequences, FiniteSets, TLC

VARIABLES files, HAS_RAWPY, edits, pc, req, file_path, gallery_base,
          image, before, i, output_path, counter, response,
          tasks, AUTH_ENABLED, sessions, now, issued, destroyed, ticks, result

vars == <<files, HAS_RAWPY, edits, pc, req, file_path, gallery_base,
          image, before, i, output_path, counter, response,
          tasks, AUTH_ENABLED, sessions, now, issued, destroyed, ticks, result>>

(* The locals of the one edit_image request in progress. *)
editState == <<HAS_RAWPY, edits, pc, req, file_path, gallery_base,
               image, before, i, output_path, counter, response>>

(* The session store of auth.py, the clock, and what was last answered. *)
authState == <<AUTH_ENABLED, sessions, now, issued, destroyed, ticks, result>>

(* ------------------------------ bounds -------------------------------- *)

MaxPathLen == 3

MaxOps == 2

MaxEdits == 2

MaxScans == 3

MaxSessions == 2

MaxTicks == 2

(* ------------------------------ strings ------------------------------- *)

SEP == "/"

DotDot == <<"..">>

Dot == <<".">>

RECURSIVE Lstrip(_)
Lstrip(s) ==
    IF s # <<>> /\ Head(s) = SEP THEN Lstrip(Tail(s)) ELSE s

LeadingSlashes(s) == Len(s) - Len(Lstrip(s))

RECURSIVE Split(_)
Split(s) ==
    IF s = <<>> THEN << <<>> >>
    ELSE LET rest == Split(Tail(s))
         IN  IF Head(s) = SEP THEN << <<>> >> \o rest
             ELSE << <<Head(s)>> \o Head(rest) >> \o Tail(rest)

RECURSIVE JoinStr(_)
JoinStr(parts) ==
    IF parts = <<>> THEN <<>>
    ELSE IF Len(parts) = 1 THEN Head(parts)
    ELSE Head(parts) \o <<SEP>> \o JoinStr(Tail(parts))

(* ------------------------------ pathlib ------------------------------- *)

NoPath == [root |-> 0, parts |-> <<>>]

KeepPart(seg) == seg # <<>> /\ seg # Dot

ParsePath(s) ==
    LET n == LeadingSlashes(s)
    IN  [root  |-> IF n = 0 THEN 0 ELSE IF n = 2 THEN 2 ELSE 1,
         parts |-> SelectSeq(Split(Lstrip(s)), KeepPart)]

AsPosix(p) ==
    IF p.root = 0 /\ p.parts = <<>> THEN Dot
    ELSE [k \in 1..p.root |-> SEP] \o JoinStr(p.parts)

PathJoin(p, s) ==
    LET q == ParsePath(s)
    IN  IF q.root # 0 THEN q ELSE [root |-> p.root, parts |-> p.parts \o q.parts]

PathParent(p) ==
    IF p.parts = <<>> THEN p
    ELSE [root |-> p.root, parts |-> SubSeq(p.parts, 1, Len(p.parts) - 1)]

PathName(p) == IF p.parts = <<>> THEN <<>> ELSE p.parts[Len(p.parts)]

IsRelativeTo(p, base) ==
    /\ p.root = base.root
    /\ Len(base.parts) <= Len(p.parts)
    /\ SubSeq(p.parts, 1, Len(base.parts)) = base.parts

Extensions == {".jpg", ".png", ".cr2", ".txt"}

HasSuffix(name) == Len(name) > 1 /\ name[Len(name)] \in Extensions

PathSuffix(p) ==
    LET name == PathName(p) IN IF HasSuffix(name) THEN name[Len(name)] ELSE ""

PathStem(p) ==
    LET name == PathName(p)
    IN  IF HasSuffix(name) THEN SubSeq(name, 1, Len(name) - 1) ELSE name

(* ---------------------------- file system ----------------------------- *)

Data == << <<"data">> >>

Gallery == << <<"data">>, <<"g">> >>

Sub == << <<"data">>, <<"g">>, <<"s">> >>

Other == << <<"data">>, <<"o">> >>

Tmp == << <<"t">> >>

(* A folder whose own name ends in an image extension. *)
Album == << <<"data">>, <<"a", ".png">> >>

Dirs == {<<>>, Data, Gallery, Sub, Other, Tmp, Album}

Links ==
    (<< <<"mnt">> >> :> Data)
    @@ (Append(Gallery, <<"lnk">>) :> Tmp)
    @@ (Append(Other, <<"in">>) :> Gallery)

Up(dir) == IF dir = <<>> THEN <<>> ELSE SubSeq(dir, 1, Len(dir) - 1)

Follow(dir, name) ==
    IF name = DotDot THEN Up(dir)
    ELSE IF Append(dir, name) \in DOMAIN Links THEN Links[Append(dir, name)]
    ELSE Append(dir, name)

RECURSIVE ResolveFrom(_, _)
ResolveFrom(cur, parts) ==
    IF parts = <<>> THEN cur
    ELSE ResolveFrom(Follow(cur, Head(parts)), Tail(parts))

RECURSIVE Normalize(_, _)
Normalize(cur, parts) ==
    IF parts = <<>> THEN cur
    ELSE Normalize(IF Head(parts) = DotDot THEN Up(cur) ELSE Append(cur, Head(parts)),
                   Tail(parts))

Resolve_Lexical(p) == [root |-> 1, parts |-> Normalize(<<>>, p.parts)]

Resolve(p) == [root |-> 1, parts |-> ResolveFrom(<<>>, p.parts)]

(* What stat() and open() do with a path: every directory on the way must *)
(* exist, symlinks are followed, ".." is the directory's real parent.      *)
RECURSIVE WalkFrom(_, _)
WalkFrom(cur, parts) ==
    IF parts = <<>> THEN [ok |-> TRUE, at |-> cur]
    ELSE IF cur \notin Dirs THEN [ok |-> FALSE, at |-> cur]
    ELSE WalkFrom(Follow(cur, Head(parts)), Tail(parts))

Walk(p) == WalkFrom(<<>>, p.parts)

PathExists(fs, p) ==
    LET r == Walk(p) IN r.ok /\ (r.at \in Dirs \/ r.at \in DOMAIN fs)

PathIsFile(fs, p) ==
    LET r == Walk(p) IN r.ok /\ r.at \in DOMAIN fs

CanWrite(p) ==
    LET r == Walk(p) IN r.ok /\ r.at \notin Dirs /\ Up(r.at) \in Dirs

WriteFile(fs, p, content) ==
    LET at == Walk(p).at
    IN  [f \in DOMAIN fs \cup {at} |-> IF f = at THEN content ELSE fs[f]]

(* ------------------------- sandbox resolution ------------------------- *)

BROWSE_ROOT == ParsePath(<<SEP, "mnt">>)

Raise(code) == [status |-> code, path |-> NoPath, base |-> NoPath]

get_safe_browse_path_NoResolve(relative_path) ==
    LET clean_path == Lstrip(AsPosix(ParsePath(relative_path)))
        full_path  == IF clean_path # <<>>
                      THEN PathJoin(BROWSE_ROOT, clean_path)
                      ELSE Resolve(BROWSE_ROOT)
    IN  IF IsRelativeTo(full_path, Resolve(BROWSE_ROOT))
        THEN [status |-> 200, path |-> full_path, base |-> Resolve(BROWSE_ROOT)]
        ELSE Raise(403)

get_safe_browse_path_NoStrip(relative_path) ==
    LET clean_path == AsPosix(ParsePath(relative_path))
        full_path  == IF clean_path # <<>>
                      THEN Resolve(PathJoin(BROWSE_ROOT, clean_path))
                      ELSE Resolve(BROWSE_ROOT)
    IN  IF IsRelativeTo(full_path, Resolve(BROWSE_ROOT))
        THEN [status |-> 200, path |-> full_path, base |-> Resolve(BROWSE_ROOT)]
        ELSE Raise(403)

get_safe_browse_path(relative_path) ==
    LET clean_path == Lstrip(AsPosix(ParsePath(relative_path)))
        full_path  == IF clean_path # <<>>
                      THEN Resolve(PathJoin(BROWSE_ROOT, clean_path))
                      ELSE Resolve(BROWSE_ROOT)
    IN  IF IsRelativeTo(full_path, Resolve(BROWSE_ROOT))
        THEN [status |-> 200, path |-> full_path, base |-> Resolve(BROWSE_ROOT)]
        ELSE Raise(403)

get_safe_gallery_path_OnePhase(relative_path, gallery_root) ==
    IF gallery_root = <<>> THEN Raise(400)
    ELSE LET browse == get_safe_browse_path(gallery_root)
         IN  IF browse.status # 200 THEN Raise(403)
             ELSE LET gallery    == browse.path
                      clean_path == Lstrip(AsPosix(ParsePath(relative_path)))
                      full_path  == IF clean_path # <<>>
                                    THEN Resolve(PathJoin(gallery, clean_path))
                                    ELSE Resolve(gallery)
                  IN  IF IsRelativeTo(full_path, Resolve(BROWSE_ROOT))
                      THEN [status |-> 200, path |-> full_path, base |-> gallery]
                      ELSE Raise(403)

get_safe_gallery_path(relative_path, gallery_root) ==
    IF gallery_root = <<>> THEN Raise(400)
    ELSE LET browse == get_safe_browse_path(gallery_root)
         IN  IF browse.status # 200 THEN Raise(403)
             ELSE LET gallery    == browse.path
                      clean_path == Lstrip(AsPosix(ParsePath(relative_path)))
                      full_path  == IF clean_path # <<>>
                                    THEN Resolve(PathJoin(gallery, clean_path))
                                    ELSE Resolve(gallery)
                  IN  IF IsRelativeTo(full_path, Resolve(gallery))
                      THEN [status |-> 200, path |-> full_path, base |-> gallery]
                      ELSE Raise(403)

(* --------------------------- edit operations -------------------------- *)

NoImage == [w |-> 0, h |-> 0]

BaseOp ==
    [keys |-> {}, type |-> "None", angle |-> 0, x |-> 0, y |-> 0,
     width |-> 0, height |-> 0, direction |-> "None"]

Get(op, key, default) == IF key \in op.keys THEN op[key] ELSE default

Truthy(op, key) == key \in op.keys /\ op[key] # 0

Abs(n) == IF n < 0 THEN 0 - n ELSE n

Max(a, b) == IF a >= b THEN a ELSE b

CeilDiv(a, b) == (a + b - 1) \div b

(* Image.thumbnail((x, y)): the box fitted to the aspect ratio, never larger *)
(* than the image; round_aspect picks the floor or the ceiling, whichever    *)
(* is nearer to the aspect ratio, and at least 1.                            *)
Thumbnail(img, x, y) ==
    IF x >= img.w /\ y >= img.h THEN img
    ELSE IF x * img.h >= y * img.w
    THEN LET f == (y * img.w) \div img.h
             c == CeilDiv(y * img.w, img.h)
             n == IF Abs(img.w * y - f * img.h) <= Abs(img.w * y - c * img.h)
                  THEN f ELSE c
         IN  [w |-> Max(n, 1), h |-> y]
    ELSE LET f == (x * img.h) \div img.w
             c == CeilDiv(x * img.h, img.w)
             n == IF f = 0 \/ Abs(img.w * f - x * img.h) * c
                               <= Abs(img.w * c - x * img.h) * f
                  THEN f ELSE c
         IN  [w |-> x, h |-> Max(n, 1)]

(* image.resize((w, h)): the codec refuses an empty target. *)
ResizeTo(w, h) ==
    IF w < 1 \/ h < 1 THEN [err |-> 400, image |-> NoImage]
    ELSE [err |-> 0, image |-> [w |-> w, h |-> h]]

Rotate_NoExpand(img, op) == [err |-> 0, image |-> img]

(* image.rotate(-angle, expand=True) for multiples of 90 degrees. *)
Rotate(img, op) ==
    LET angle == Get(op, "angle", 0)
    IN  IF ((0 - angle) % 360) \in {90, 270}
        THEN [err |-> 0, image |-> [w |-> img.h, h |-> img.w]]
        ELSE [err |-> 0, image |-> img]

Crop_OffByOne(img, op) ==
    LET x      == Get(op, "x", 0)
        y      == Get(op, "y", 0)
        width  == Get(op, "width", img.w - x)
        height == Get(op, "height", img.h - y)
    IN  IF x < 0 \/ y < 0 \/ width <= 0 \/ height <= 0
        THEN [err |-> 400, image |-> img]
        ELSE IF x + width >= img.w \/ y + height >= img.h
        THEN [err |-> 400, image |-> img]
        ELSE [err |-> 0, image |-> [w |-> width, h |-> height]]

Crop(img, op) ==
    LET x      == Get(op, "x", 0)
        y      == Get(op, "y", 0)
        width  == Get(op, "width", img.w - x)
        height == Get(op, "height", img.h - y)
    IN  IF x < 0 \/ y < 0 \/ width <= 0 \/ height <= 0
        THEN [err |-> 400, image |-> img]
        ELSE IF x + width > img.w \/ y + height > img.h
        THEN [err |-> 400, image |-> img]
        ELSE [err |-> 0, image |-> [w |-> width, h |-> height]]

Resize_FitBox(img, op) ==
    IF Truthy(op, "width") /\ Truthy(op, "height")
    THEN IF op.width < 1 \/ op.height < 1 THEN [err |-> 400, image |-> NoImage]
         ELSE [err |-> 0, image |-> Thumbnail(img, op.width, op.height)]
    ELSE IF Truthy(op, "width")
    THEN ResizeTo(op.width, (img.h * op.width) \div img.w)
    ELSE IF Truthy(op, "height")
    THEN ResizeTo((img.w * op.height) \div img.h, op.height)
    ELSE [err |-> 0, image |-> img]

Resize(img, op) ==
    IF Truthy(op, "width") /\ Truthy(op, "height")
    THEN ResizeTo(op.width, op.height)
    ELSE IF Truthy(op, "width")
    THEN ResizeTo(op.width, (img.h * op.width) \div img.w)
    ELSE IF Truthy(op, "height")
    THEN ResizeTo((img.w * op.height) \div img.h, op.height)
    ELSE [err |-> 0, image |-> img]

Flip(img, op) ==
    LET direction == Get(op, "direction", "horizontal")
    IN  IF direction \in {"horizontal", "vertical"}
        THEN [err |-> 0, image |-> img]
        ELSE [err |-> 400, image |-> img]

ApplyOp_IgnoreUnknown(img, op) ==
    LET op_type == Get(op, "type", "None")
    IN  CASE op_type = "rotate" -> Rotate(img, op)
          [] op_type = "crop"   -> Crop(img, op)
          [] op_type = "resize" -> Resize(img, op)
          [] op_type = "flip"   -> Flip(img, op)
          [] OTHER              -> [err |-> 0, image |-> img]

(* One pass of the body of `for op in operations`. *)
ApplyOp(img, op) ==
    LET op_type == Get(op, "type", "None")
    IN  CASE op_type = "rotate" -> Rotate(img, op)
          [] op_type = "crop"   -> Crop(img, op)
          [] op_type = "resize" -> Resize(img, op)
          [] op_type = "flip"   -> Flip(img, op)
          [] OTHER              -> [err |-> 400, image |-> img]

(* The operations the requests draw from. *)
RotateOp(a) == [BaseOp EXCEPT !.keys = {"type", "angle"}, !.type = "rotate", !.angle = a]

CropOp(x, y, w, h) ==
    [BaseOp EXCEPT !.keys = {"type", "x", "y", "width", "height"}, !.type = "crop",
                   !.x = x, !.y = y, !.width = w, !.height = h]

CropFrom(x, y) ==
    [BaseOp EXCEPT !.keys = {"type", "x", "y"}, !.type = "crop", !.x = x, !.y = y]

ResizeOp(keys, w, h) ==
    [BaseOp EXCEPT !.keys = {"type"} \cup keys, !.type = "resize",
                   !.width = w, !.height = h]

FlipOp(d) ==
    [BaseOp EXCEPT !.keys = {"type", "direction"}, !.type = "flip", !.direction = d]

KindOp(t) == [BaseOp EXCEPT !.keys = {"type"}, !.type = t]

OpSet ==
    {RotateOp(90), RotateOp(180), RotateOp(270),
     CropOp(0, 0, 3000, 2000), CropOp(1, 0, 3, 2), CropOp(0, 0, 2, 4),
     CropOp(0 - 1, 0, 1, 1), CropOp(0, 0 - 1, 1, 1), CropOp(0, 0, 0, 1),
     CropOp(0, 0, 1, 0), CropFrom(0, 1), CropFrom(4, 0),
     ResizeOp({"width", "height"}, 2, 2), ResizeOp({"width"}, 2, 0),
     ResizeOp({"height"}, 0, 1), ResizeOp({}, 0, 0),
     FlipOp("horizontal"), FlipOp("vertical"), FlipOp("diagonal"), KindOp("flip"),
     KindOp("blur"), BaseOp}

OpLists == UNION {[1..k -> OpSet] : k \in 0..MaxOps}

(* ------------------------------ requests ------------------------------ *)

NoReq ==
    [kind |-> "none", path |-> <<>>, gallery_root |-> <<>>, operations |-> <<>>,
     output_prefix |-> <<>>, output_suffix |-> <<>>]

PathTokens == {SEP, "..", ".", "g", "s", "lnk", "o", "in", "t"}

DotTokens == {".", ".."}

Unambiguous(s) ==
    \A k \in 1..(Len(s) - 1) : ~(s[k] \in DotTokens /\ s[k + 1] \in DotTokens)

RelPaths ==
    {s \in UNION {[1..k -> PathTokens] : k \in 0..MaxPathLen} : Unambiguous(s)}

GalleryRoots ==
    {<<>>, <<"g">>, <<SEP>>, <<"g", SEP, "lnk">>, <<"..">>, <<"o", SEP, "in">>,
     <<"g", SEP, "s">>, <<SEP, "g">>}

InitFiles ==
    (Append(Gallery, <<"photo", ".jpg">>) :> [w |-> 4000, h |-> 3000, by |-> 0])
    @@ (Append(Sub, <<"small", ".png">>) :> [w |-> 4, h |-> 2, by |-> 0])
    @@ (Append(Gallery, <<"shot", ".cr2">>) :> [w |-> 6, h |-> 4, by |-> 0])
    @@ (Append(Gallery, <<"bad", ".jpg">>) :> [w |-> 0, h |-> 0, by |-> 0])
    @@ (Append(Gallery, <<"notes", ".txt">>) :> [w |-> 0, h |-> 0, by |-> 0])

(* An edit_upload request that has not arrived yet. *)
NoTask ==
    [pc |-> "idle", path |-> <<>>, gallery_root |-> <<>>,
     output_prefix |-> <<>>, output_suffix |-> <<>>,
     file_path |-> NoPath, gallery_base |-> NoPath,
     output_path |-> NoPath, counter |-> 0, response |-> 0]

Tasks == {1, 2}

(* Nothing answered yet by the session functions or the middleware. *)
NoResult ==
    [call |-> "none", token |-> 0, path |-> <<>>, answer |-> "none",
     valid |-> "skipped"]

(* The server at start: no request in progress, no session. *)
Started ==
    /\ files = InitFiles
    /\ edits = 0
    /\ pc = "idle"
    /\ req = NoReq
    /\ file_path = NoPath
    /\ gallery_base = NoPath
    /\ image = NoImage
    /\ before = NoImage
    /\ i = 0
    /\ output_path = NoPath
    /\ counter = 0
    /\ response = 0
    /\ tasks = [t \in Tasks |-> NoTask]
    /\ sessions = <<>>
    /\ now = 0
    /\ issued = <<>>
    /\ destroyed = {}
    /\ ticks = 0
    /\ result = NoResult

(* HAS_RAWPY is whether rawpy could be imported; AUTH_ENABLED is read from *)
(* the environment and defaults to false.                                 *)
Init == Started /\ HAS_RAWPY \in BOOLEAN /\ AUTH_ENABLED = FALSE

(* A call of get_safe_browse_path, as browse_filesystem makes it. *)
ResolveBrowse ==
    /\ pc = "idle"
    /\ \E p \in RelPaths :
        LET r == get_safe_browse_path(p)
        IN  /\ req' = [NoReq EXCEPT !.kind = "browse", !.path = p]
            /\ response' = r.status
            /\ file_path' = r.path
            /\ gallery_base' = r.base
            /\ pc' = "done"
            /\ UNCHANGED <<tasks, authState, files, HAS_RAWPY, edits, image, before, i,
                           output_path, counter>>

(* A call of get_safe_gallery_path, as the gallery endpoints make it. *)
ResolveGallery ==
    /\ pc = "idle"
    /\ \E p \in RelPaths, g \in GalleryRoots :
        LET r == get_safe_gallery_path(p, g)
        IN  /\ req' = [NoReq EXCEPT !.kind = "gallery", !.path = p, !.gallery_root = g]
            /\ response' = r.status
            /\ file_path' = r.path
            /\ gallery_base' = r.base
            /\ pc' = "done"
            /\ UNCHANGED <<tasks, authState, files, HAS_RAWPY, edits, image, before, i,
                           output_path, counter>>

NextPath == ResolveBrowse \/ ResolveGallery

SpecPath == Init /\ [][NextPath]_vars

(* ---------------------------- edit_image ------------------------------ *)

IMAGE_EXTENSIONS == {".jpg", ".png", ".cr2"}

RAW_EXTENSIONS == {".cr2"}

is_image_file(p) == PathSuffix(p) \in IMAGE_EXTENSIONS

Decodable(content) == content.w > 0

(* The load phase of apply_edits: the status it fails with, or 0. *)
LoadError(fs, p) ==
    IF PathSuffix(p) \in RAW_EXTENSIONS /\ ~HAS_RAWPY THEN 400
    ELSE IF ~Decodable(fs[Walk(p).at]) THEN 500
    ELSE 0

EditPaths ==
    {<<"photo", ".jpg">>, <<"s", SEP, "small", ".png">>, <<"shot", ".cr2">>,
     <<"bad", ".jpg">>, <<"notes", ".txt">>, <<"nope", ".jpg">>, <<"..", SEP, "o">>}

EditGalleries == {<<>>, <<"g">>}

EditOpLists ==
    {<<>>, <<FlipOp("vertical")>>, <<FlipOp("horizontal"), KindOp("blur")>>}

Prefixes == {<<>>, <<"..", SEP>>, <<SEP, "t", SEP>>}

Suffixes == {<<>>, <<"_edited">>}

OpsPaths == {<<"photo", ".jpg">>, <<"s", SEP, "small", ".png">>}

(* edit_image up to the operation loop of apply_edits: the sandbox, the *)
(* existence and type checks, the load phase.                           *)
EditBegin(paths, galleries, oplists, prefixes, suffixes) ==
    /\ pc = "idle"
    /\ \E p \in paths, g \in galleries, ops \in oplists,
          pre \in prefixes, suf \in suffixes :
          LET r      == get_safe_gallery_path(p, g)
              status == IF r.status # 200 THEN r.status
                        ELSE IF ~PathExists(files, r.path) THEN 404
                        ELSE IF ~PathIsFile(files, r.path) \/ ~is_image_file(r.path)
                        THEN 400
                        ELSE LoadError(files, r.path)
          IN  /\ req' = [kind |-> "edit", path |-> p, gallery_root |-> g,
                         operations |-> ops, output_prefix |-> pre,
                         output_suffix |-> suf]
              /\ file_path' = r.path
              /\ gallery_base' = r.base
              /\ edits' = edits + 1
              /\ IF status = 0
                 THEN /\ pc' = "ops"
                      /\ image' = [w |-> files[Walk(r.path).at].w,
                                   h |-> files[Walk(r.path).at].h]
                      /\ i' = 1
                      /\ response' = 0
                 ELSE /\ pc' = "done"
                      /\ image' = NoImage
                      /\ i' = 0
                      /\ response' = status
              /\ UNCHANGED <<tasks, authState, files, HAS_RAWPY, before, output_path, counter>>

(* One iteration of `for op in operations`; a ValueError ends the request *)
(* with 400.                                                              *)
StepOp ==
    /\ pc = "ops"
    /\ i <= Len(req.operations)
    /\ LET r == ApplyOp(image, req.operations[i])
       IN  IF r.err = 0
           THEN /\ image' = r.image
                /\ before' = image
                /\ i' = i + 1
                /\ UNCHANGED <<pc, response>>
           ELSE /\ pc' = "done"
                /\ response' = r.err
                /\ UNCHANGED <<image, before, i>>
    /\ UNCHANGED <<tasks, authState, files, HAS_RAWPY, edits, req, file_path, gallery_base,
                   output_path, counter>>

OutputName(prefix, stem, suffix) == prefix \o stem \o suffix \o <<".jpg">>

NumberedName_OffByOne(prefix, stem, suffix, n) ==
    prefix \o stem \o suffix \o <<"_", ToString(n + 1), ".jpg">>

NumberedName(prefix, stem, suffix, n) ==
    prefix \o stem \o suffix \o <<"_", ToString(n), ".jpg">>

(* The output filename of apply_edits, before the collision loop. *)
NameOutput ==
    /\ pc = "ops"
    /\ i > Len(req.operations)
    /\ output_path' = PathJoin(PathParent(file_path),
                               OutputName(req.output_prefix, PathStem(file_path),
                                          req.output_suffix))
    /\ counter' = 1
    /\ pc' = "check"
    /\ UNCHANGED <<tasks, authState, files, HAS_RAWPY, edits, req, file_path, gallery_base,
                   image, before, i, response>>

NameTaken_Never(fs, p) == FALSE

NameTaken(fs, p) == PathExists(fs, p)

(* One test of `while output_path.exists()` and, when it holds, the body. *)
CheckExists ==
    /\ pc = "check"
    /\ IF NameTaken(files, output_path)
       THEN /\ output_path' = PathJoin(PathParent(file_path),
                                       NumberedName(req.output_prefix,
                                                    PathStem(file_path),
                                                    req.output_suffix, counter))
            /\ counter' = counter + 1
            /\ pc' = "check"
       ELSE /\ pc' = "save"
            /\ UNCHANGED <<output_path, counter>>
    /\ UNCHANGED <<tasks, authState, files, HAS_RAWPY, edits, req, file_path, gallery_base,
                   image, before, i, response>>

(* image.save, then edit_image's answer: the output path relative to the *)
(* gallery base, a ValueError of relative_to being answered with 400.    *)
Save ==
    /\ pc = "save"
    /\ IF CanWrite(output_path)
       THEN /\ files' = WriteFile(files, output_path,
                                  [w |-> image.w, h |-> image.h, by |-> edits])
            /\ response' = IF IsRelativeTo(output_path, gallery_base)
                           THEN 200 ELSE 400
       ELSE /\ response' = 500
            /\ UNCHANGED files
    /\ pc' = "done"
    /\ UNCHANGED <<tasks, authState, HAS_RAWPY, edits, req, file_path, gallery_base,
                   image, before, i, output_path, counter>>

(* The request is answered; the server waits for the next one. *)
Finish ==
    /\ pc = "done"
    /\ req.kind = "edit"
    /\ pc' = "idle"
    /\ req' = NoReq
    /\ file_path' = NoPath
    /\ gallery_base' = NoPath
    /\ image' = NoImage
    /\ before' = NoImage
    /\ i' = 0
    /\ output_path' = NoPath
    /\ counter' = 0
    /\ response' = 0
    /\ UNCHANGED <<tasks, authState, files, HAS_RAWPY, edits>>

(* The requests a run makes are bounded so that the state space is finite. *)
EditStart(paths, galleries, oplists, prefixes, suffixes) ==
    /\ edits < MaxEdits
    /\ EditBegin(paths, galleries, oplists, prefixes, suffixes)

EditAny == EditStart(EditPaths, EditGalleries, EditOpLists, Prefixes, Suffixes)

Next == EditAny \/ StepOp \/ NameOutput \/ CheckExists \/ Save \/ Finish

Spec == Init /\ [][Next]_vars

EditOps == EditStart(OpsPaths, {<<"g">>}, OpLists, {<<>>}, {<<"_edited">>})

NextOps == EditOps \/ StepOp \/ NameOutput \/ CheckExists \/ Save

SpecOps == Init /\ [][NextOps]_vars

(* Requests that differ only in where the output name sends the scan of  *)
(* the collision loop, one after the other.                               *)
ScanPaths == {<<"photo", ".jpg">>, <<"s", SEP, "small", ".png">>}

ScanPrefixes == {<<>>, <<"..", SEP>>}

EditScan ==
    /\ edits < MaxScans
    /\ EditBegin(ScanPaths, {<<"g">>}, {<<FlipOp("vertical")>>}, ScanPrefixes, {<<>>})

NextScan == EditScan \/ StepOp \/ NameOutput \/ CheckExists \/ Save \/ Finish

SpecScan == Init /\ [][NextScan]_vars

(* ---------------------------- edit_upload ----------------------------- *)

UploadName(prefix, stem, suffix) == prefix \o stem \o suffix \o <<".png">>

UploadNumbered(prefix, stem, suffix, n) ==
    prefix \o stem \o suffix \o <<"_", ToString(n), ".png">>

(* `while output_path.exists()` of edit_upload, run to its exit: the path *)
(* and the counter it leaves with.                                        *)
RECURSIVE FreeName(_, _, _, _, _, _, _)
FreeName(fs, parent, prefix, stem, suffix, out, n) ==
    IF ~PathExists(fs, out) THEN [path |-> out, counter |-> n]
    ELSE FreeName(fs, parent, prefix, stem, suffix,
                  PathJoin(parent, UploadNumbered(prefix, stem, suffix, n)), n + 1)

(* The bytes a client uploads; `by` tells the two requests' uploads apart. *)
UploadContent(t) == [w |-> 1, h |-> 1, by |-> t]

UploadPaths ==
    {Dot, <<"photo", ".jpg">>, <<"s", SEP, "small", ".png">>, <<"nope", ".jpg">>}

UploadGalleries == {<<>>, <<"g">>, <<"a", ".png">>}

UploadPrefixes == {<<>>, <<"..", SEP>>, <<"lnk", SEP>>}

UploadSuffixes == {<<"_edited">>, <<".png", SEP, "..", SEP, "a">>}

(* edit_upload up to `await image.read()`: the sandbox, the existence     *)
(* check, the containment check of the un-numbered name, the collision    *)
(* loop.  No await occurs before this point, so the event loop runs it    *)
(* as one step.                                                           *)
UploadStart(t) ==
    /\ tasks[t].pc = "idle"
    /\ \E p \in UploadPaths, g \in UploadGalleries,
          pre \in UploadPrefixes, suf \in UploadSuffixes :
          LET r      == get_safe_gallery_path(p, g)
              parent == PathParent(r.path)
              stem   == PathStem(r.path)
              first  == PathJoin(parent, UploadName(pre, stem, suf))
              status == IF r.status # 200 THEN r.status
                        ELSE IF ~PathExists(files, r.path) THEN 404
                        ELSE IF ~IsRelativeTo(Resolve(first), Resolve(r.base))
                        THEN 403
                        ELSE 0
              free   == FreeName(files, parent, pre, stem, suf, first, 1)
              asked  == [NoTask EXCEPT !.path = p, !.gallery_root = g,
                                       !.output_prefix = pre,
                                       !.output_suffix = suf,
                                       !.file_path = r.path,
                                       !.gallery_base = r.base]
          IN  tasks' = [tasks EXCEPT ![t] =
                          IF status = 0
                          THEN [asked EXCEPT !.pc = "read",
                                             !.output_path = free.path,
                                             !.counter = free.counter]
                          ELSE [asked EXCEPT !.pc = "done",
                                             !.response = status]]
    /\ UNCHANGED <<files, editState, authState>>

(* edit_upload after the await: open(output_path, 'wb') and write, then    *)
(* the answer; any exception, the ValueError of relative_to included, is  *)
(* answered with 500.                                                     *)
UploadWrite(t) ==
    /\ tasks[t].pc = "read"
    /\ LET out == tasks[t].output_path
       IN  IF CanWrite(out)
           THEN /\ files' = WriteFile(files, out, UploadContent(t))
                /\ tasks' = [tasks EXCEPT ![t].pc = "done",
                                          ![t].response =
                                              IF IsRelativeTo(out, tasks[t].gallery_base)
                                              THEN 200 ELSE 500]
           ELSE /\ tasks' = [tasks EXCEPT ![t].pc = "done", ![t].response = 500]
                /\ UNCHANGED files
    /\ UNCHANGED <<editState, authState>>

NextUpload == \E t \in Tasks : UploadStart(t) \/ UploadWrite(t)

SpecUpload == Init /\ [][NextUpload]_vars

(* ------------------------- sessions (auth.py) ------------------------- *)

(* Hours; the clock of the model counts hours. *)
SESSION_EXPIRY_HOURS == 168

(* secrets.token_urlsafe(32): a token no earlier call has returned.  Tokens *)
(* are numbered in the order they are issued; 0 is the absent cookie.      *)
NewToken == Len(issued) + 1

Remove(store, token) == [k \in DOMAIN store \ {token} |-> store[k]]

validate_session_NoExpiry(store, token, t) ==
    IF token = 0 \/ token \notin DOMAIN store
    THEN [ok |-> FALSE, sessions |-> store]
    ELSE [ok |-> TRUE, sessions |-> store]

(* validate_session: its answer and the store it leaves. *)
validate_session(store, token, t) ==
    IF token = 0 \/ token \notin DOMAIN store
    THEN [ok |-> FALSE, sessions |-> store]
    ELSE IF t > store[token]
    THEN [ok |-> FALSE, sessions |-> Remove(store, token)]
    ELSE [ok |-> TRUE, sessions |-> store]

(* A URL path is a sequence of tokens chosen so that one path starts with  *)
(* another as strings exactly when it does as token sequences.             *)
StartsWith(s, prefix) ==
    Len(prefix) <= Len(s) /\ SubSeq(s, 1, Len(prefix)) = prefix

public_paths == {<<"/api/", "auth/">>, <<"/login", ".html">>, <<"/login">>}

static_extensions ==
    {".js", ".css", ".png", ".jpg", ".svg", ".ico", ".woff", ".woff2", ".json"}

EndsWithOneOf(s, endings) == s # <<>> /\ s[Len(s)] \in endings

auth_middleware_StaticOpen(path, cookie, enabled, store, t) ==
    LET v == validate_session(store, cookie, t)
    IN  IF \E pre \in public_paths : StartsWith(path, pre)
        THEN [answer |-> "handler", valid |-> "skipped", sessions |-> store]
        ELSE IF ~enabled
        THEN [answer |-> "handler", valid |-> "skipped", sessions |-> store]
        ELSE IF EndsWithOneOf(path, static_extensions)
        THEN [answer |-> "handler", valid |-> "skipped", sessions |-> store]
        ELSE IF v.ok
        THEN [answer |-> "handler", valid |-> "yes", sessions |-> v.sessions]
        ELSE IF StartsWith(path, <<"/api/">>)
        THEN [answer |-> "401", valid |-> "no", sessions |-> v.sessions]
        ELSE [answer |-> "login", valid |-> "no", sessions |-> v.sessions]

(* auth_middleware: what the request is answered with, whether the cookie  *)
(* was validated, and the store validate_session leaves.                   *)
auth_middleware(path, cookie, enabled, store, t) ==
    LET v == validate_session(store, cookie, t)
    IN  IF \E pre \in public_paths : StartsWith(path, pre)
        THEN [answer |-> "handler", valid |-> "skipped", sessions |-> store]
        ELSE IF ~enabled
        THEN [answer |-> "handler", valid |-> "skipped", sessions |-> store]
        ELSE IF v.ok
        THEN [answer |-> "handler", valid |-> "yes", sessions |-> v.sessions]
        ELSE IF StartsWith(path, <<"/api/">>)
        THEN [answer |-> "401", valid |-> "no", sessions |-> v.sessions]
        ELSE IF EndsWithOneOf(path, static_extensions)
        THEN [answer |-> "401", valid |-> "no", sessions |-> v.sessions]
        ELSE [answer |-> "login", valid |-> "no", sessions |-> v.sessions]

UrlPaths ==
    {<<"/api/", "auth/", "status">>, <<"/api/", "auth">>, <<"/api/", "edit">>,
     <<"/login", ".html">>, <<"/login">>, <<"/login", "s">>,
     <<"/">>, <<"/", "gallery">>, <<"/", "app", ".js">>,
     <<"/", "g", "/login">>, <<"/api/", "image/", "photo", ".jpg">>}

Cookies == 0..MaxSessions

(* The answer of a request's middleware, the handler not yet run. *)
Request ==
    \E path \in UrlPaths, cookie \in Cookies :
        LET r == auth_middleware(path, cookie, AUTH_ENABLED, sessions, now)
        IN  /\ sessions' = r.sessions
            /\ result' = [call |-> "request", token |-> cookie, path |-> path,
                          answer |-> r.answer, valid |-> r.valid]
            /\ UNCHANGED <<AUTH_ENABLED, now, issued, destroyed, ticks>>
            /\ UNCHANGED <<files, editState, tasks>>

(* auth_setup and auth_login with good credentials: create_session. *)
Login ==
    /\ AUTH_ENABLED
    /\ Len(issued) < MaxSessions
    /\ sessions' = (NewToken :> (now + SESSION_EXPIRY_HOURS)) @@ sessions
    /\ issued' = Append(issued, now + SESSION_EXPIRY_HOURS)
    /\ result' = [call |-> "create", token |-> NewToken, path |-> <<>>,
                  answer |-> "token", valid |-> "skipped"]
    /\ UNCHANGED <<AUTH_ENABLED, now, destroyed, ticks>>
    /\ UNCHANGED <<files, editState, tasks>>

(* auth_logout: destroy_session for the cookie sent, if one was sent. *)
Logout ==
    \E cookie \in Cookies :
        /\ sessions' = IF cookie # 0 /\ cookie \in DOMAIN sessions
                       THEN Remove(sessions, cookie) ELSE sessions
        /\ destroyed' = IF cookie \in DOMAIN issued
                        THEN destroyed \cup {cookie} ELSE destroyed
        /\ result' = [call |-> "destroy", token |-> cookie, path |-> <<>>,
                      answer |-> IF cookie # 0 /\ cookie \in DOMAIN sessions
                                 THEN "true" ELSE "false",
                      valid |-> "skipped"]
        /\ UNCHANGED <<AUTH_ENABLED, now, issued, ticks>>
        /\ UNCHANGED <<files, editState, tasks>>

(* Time passes: datetime.now() grows. *)
Tick ==
    /\ ticks < MaxTicks
    /\ \E d \in {1, SESSION_EXPIRY_HOURS} : now' = now + d
    /\ ticks' = ticks + 1
    /\ result' = [NoResult EXCEPT !.call = "tick"]
    /\ UNCHANGED <<AUTH_ENABLED, sessions, issued, destroyed>>
    /\ UNCHANGED <<files, editState, tasks>>

InitAuth == Started /\ HAS_RAWPY = FALSE /\ AUTH_ENABLED \in BOOLEAN

NextAuth == Request \/ Login \/ Logout \/ Tick

SpecAuth == InitAuth /\ [][NextAuth]_vars

(* ------------------------ claims: path sandbox ------------------------ *)

Inside(parts, root) ==
    Len(root) <= Len(parts) /\ SubSeq(parts, 1, Len(root)) = root

Canonical(p) ==
    /\ p.root = 1
    /\ \A k \in 1..Len(p.parts) :
          /\ p.parts[k] \notin {DotDot, Dot, <<>>}
          /\ SubSeq(p.parts, 1, k) \notin DOMAIN Links

Segments(s) == SelectSeq(Split(s), KeepPart)

Lands(dir, s) == ResolveFrom(dir, Segments(s))

(* C1: for every relative path, get_safe_browse_path either returns a      *)
(* canonical path equal to or below the real browse root directory, or     *)
(* rejects with 403; it never returns a path outside the root.             *)
C1_BrowseStaysInside ==
    req.kind = "browse" =>
        /\ response \in {200, 403}
        /\ response = 200 =>
              /\ Canonical(file_path)
              /\ Inside(file_path.parts, Data)
              /\ file_path.parts = Lands(Data, req.path)
        /\ response = 403 => ~Inside(Lands(Data, req.path), Data)

C1_Witness ==
    /\ req.kind = "browse"
    /\ req.path = <<"o", SEP, "in">>
    /\ response = 200
    /\ file_path.parts = Gallery

(* C2: get_safe_gallery_path returns a path only when gallery_root is      *)
(* non-empty, the gallery base lies inside the browse root and the path    *)
(* lies inside the gallery base; an empty gallery_root gives 400 and a     *)
(* containment failure 403.                                                *)
C2_GalleryTwoPhase ==
    req.kind = "gallery" =>
        LET base == Lands(Data, req.gallery_root)
            full == Lands(base, req.path)
        IN  /\ response \in {200, 400, 403}
            /\ response = 400 <=> req.gallery_root = <<>>
            /\ response = 200 <=>
                  /\ req.gallery_root # <<>>
                  /\ Inside(base, Data)
                  /\ Inside(full, base)
            /\ response = 200 =>
                  /\ gallery_base.parts = base
                  /\ file_path.parts = full
                  /\ Canonical(file_path)
                  /\ Inside(file_path.parts, Data)

C2_Witness ==
    /\ req.kind = "gallery"
    /\ req.gallery_root = <<"g", SEP, "s">>
    /\ req.path = <<"..">>
    /\ response = 403

ValidGallery(g) == g # <<>> /\ Inside(Lands(Data, g), Data)

(* C13: the empty relative path resolves to the root itself: for           *)
(* get_safe_browse_path the real directory BROWSE_ROOT leads to, for       *)
(* get_safe_gallery_path with a valid gallery_root the resolved gallery    *)
(* base; the request is accepted and the path returned is canonical.       *)
C13_EmptyPathIsRoot ==
    /\ (req.kind = "browse" /\ req.path = <<>>) =>
          /\ response = 200
          /\ file_path = [root |-> 1, parts |-> Data]
    /\ (req.kind = "gallery" /\ req.path = <<>> /\ ValidGallery(req.gallery_root)) =>
          /\ response = 200
          /\ file_path = [root |-> 1, parts |-> Lands(Data, req.gallery_root)]
          /\ file_path = gallery_base
          /\ Canonical(file_path)

C13_Witness ==
    /\ req.kind = "gallery"
    /\ req.path = <<>>
    /\ req.gallery_root = <<"o", SEP, "in">>
    /\ response = 200
    /\ file_path.parts = Gallery
    /\ gallery_base = file_path

(* Where a request's path is looked up from: the real browse root, or the  *)
(* gallery base.                                                           *)
RootOf == IF req.kind = "browse" THEN Data ELSE Lands(Data, req.gallery_root)

(* C14: a path written with leading slashes is taken relative to the root  *)
(* (the browse root, or the valid gallery base): the answer is the one the *)
(* path without its leading slashes gets, 200 with root/p when that lies   *)
(* inside the root and 403 otherwise, and what is returned is never the    *)
(* place the absolute path /p leads to.                                    *)
C14_LeadingSlashIsRootRelative ==
    (/\ req.kind \in {"browse", "gallery"}
     /\ req.kind = "gallery" => ValidGallery(req.gallery_root)
     /\ LeadingSlashes(req.path) >= 1)
    => LET there == ResolveFrom(RootOf, Segments(Lstrip(req.path)))
       IN  /\ response = (IF Inside(there, RootOf) THEN 200 ELSE 403)
           /\ response = 200 =>
                 /\ file_path.parts = there
                 /\ file_path.parts # ResolveFrom(<<>>, Segments(req.path))

C14_Witness ==
    /\ req.kind = "browse"
    /\ req.path = <<SEP, "t">>
    /\ response = 200
    /\ file_path.parts = Append(Data, <<"t">>)
    /\ file_path.parts # Tmp

(* ------------------------ claims: edit pipeline ----------------------- *)

Source == file_path.parts

Written == {f \in DOMAIN files : files[f].by = edits}

Running == req.kind = "edit" /\ i >= 1

ExpectedName(k) ==
    req.output_prefix \o PathStem(file_path) \o req.output_suffix
        \o (IF k = 0 THEN <<>> ELSE <<"_", ToString(k)>>) \o <<".jpg">>

Beside(k) == PathJoin(PathParent(file_path), ExpectedName(k))

(* C3: for all operation lists and all prefix/suffix values, apply_edits   *)
(* leaves the source file as it was: the path it saves to is never the     *)
(* source and the source is never written or deleted.                      *)
C3_SourceUntouched ==
    Running =>
        /\ Source \in DOMAIN files
        /\ files[Source] = InitFiles[Source]
        /\ pc = "save" => Walk(output_path).at # Source

C3_Witness ==
    /\ Running
    /\ pc = "done"
    /\ response = 200
    /\ req.output_prefix = <<>>
    /\ req.output_suffix = <<>>
    /\ Source = Append(Gallery, <<"photo", ".jpg">>)
    /\ Walk(output_path).at = Append(Gallery, <<"photo", "_", "1", ".jpg">>)

(* C4: when apply_edits succeeds, exactly one new file exists afterwards   *)
(* and every earlier file is untouched; it is named prefix+stem+suffix.jpg *)
(* if that name was free, else prefix+stem+suffix_k.jpg for the smallest   *)
(* k >= 1 whose name was free.                                             *)
C4_OneNewFile ==
    [][(pc = "save" /\ response' # 500) =>
          LET at == Walk(output_path).at
          IN  /\ at \notin DOMAIN files
              /\ DOMAIN files' = DOMAIN files \cup {at}
              /\ \A f \in DOMAIN files : files'[f] = files[f]
              /\ \/ output_path = Beside(0) /\ ~PathExists(files, Beside(0))
                 \/ \E k \in 1..(Cardinality(DOMAIN files) + 1) :
                       /\ output_path = Beside(k)
                       /\ ~PathExists(files, Beside(k))
                       /\ \A j \in 0..(k - 1) : PathExists(files, Beside(j))]_vars

C4_Witness ==
    /\ Running
    /\ pc = "done"
    /\ response = 200
    /\ edits = 2
    /\ req.output_prefix = <<>>
    /\ req.output_suffix = <<>>
    /\ Walk(output_path).at = Append(Gallery, <<"photo", "_", "2", ".jpg">>)
    /\ Append(Gallery, <<"photo", "_", "1", ".jpg">>) \in DOMAIN files
    /\ files[Append(Gallery, <<"photo", "_", "1", ".jpg">>)].by = 1

(* C5: an edit request answered with 400 or 500 has created or modified    *)
(* no file.                                                                *)
C5_FailureWritesNothing ==
    (req.kind = "edit" /\ pc = "done" /\ response \in {400, 500}) => Written = {}

(* C6: for every output_prefix and output_suffix, the file apply_edits     *)
(* writes is in the parent directory of the source file.                   *)
C6_OutputBesideSource ==
    (req.kind = "edit" /\ pc = "done") =>
        \A f \in Written : Up(f) = Up(Source)

CropRejected(img, op) ==
    LET x  == IF "x" \in op.keys THEN op.x ELSE 0
        y  == IF "y" \in op.keys THEN op.y ELSE 0
        cw == IF "width" \in op.keys THEN op.width ELSE img.w - x
        ch == IF "height" \in op.keys THEN op.height ELSE img.h - y
    IN  x < 0 \/ y < 0 \/ cw <= 0 \/ ch <= 0 \/ x + cw > img.w \/ y + ch > img.h

CropSize(img, op) ==
    LET x  == IF "x" \in op.keys THEN op.x ELSE 0
        y  == IF "y" \in op.keys THEN op.y ELSE 0
    IN  [w |-> IF "width" \in op.keys THEN op.width ELSE img.w - x,
         h |-> IF "height" \in op.keys THEN op.height ELSE img.h - y]

AtOp(t) ==
    /\ pc = "ops"
    /\ i <= Len(req.operations)
    /\ "type" \in req.operations[i].keys
    /\ req.operations[i].type = t

(* C7: a crop of an image of current size W x H is rejected with 400, and  *)
(* nothing is written, whenever x<0, y<0, width<=0, height<=0, x+width>W   *)
(* or y+height>H (width and height defaulting to W-x and H-y); otherwise   *)
(* it is accepted and the image becomes width x height.                    *)
C7_CropValidation ==
    /\ [](req.kind = "edit" /\ pc = "done" /\ response = 400 => files = InitFiles)
    /\ [][AtOp("crop") =>
             IF CropRejected(image, req.operations[i])
             THEN pc' = "done" /\ response' = 400 /\ files' = files
             ELSE /\ pc' = "ops"
                  /\ i' = i + 1
                  /\ image' = CropSize(image, req.operations[i])]_vars

C7_Witness ==
    /\ req.kind = "edit"
    /\ pc = "done"
    /\ response = 400
    /\ i = 2
    /\ req.operations = <<RotateOp(90), CropOp(1, 0, 3, 2)>>
    /\ image = [w |-> 2, h |-> 4]
    /\ files = InitFiles

Swapped(img) == [w |-> img.h, h |-> img.w]

SourceSize == [w |-> InitFiles[Source].w, h |-> InitFiles[Source].h]

(* C8: operations are applied in list order, each on the image the         *)
(* previous one produced: rotate by 90/180/270 turns W x H into H x W /    *)
(* W x H / H x W, and a crop after a rotate is validated against the       *)
(* rotated size (4000x3000, [rotate 90, crop 0,0,3000,2000] gives a        *)
(* 3000x2000 output; the same crop before the rotate is checked against    *)
(* 4000x3000).                                                             *)
C8_OrderAndRotate ==
    /\ [](Running /\ pc = "done" /\ Len(req.operations) = 2
          /\ req.operations[1] \in {RotateOp(90), RotateOp(270)}
          /\ req.operations[2].type = "crop"
          => (response = 200 <=> ~CropRejected(Swapped(SourceSize), req.operations[2])))
    /\ [](Running /\ pc = "done" /\ SourceSize = [w |-> 4000, h |-> 3000]
          /\ req.operations = <<RotateOp(90), CropOp(0, 0, 3000, 2000)>>
          => /\ response = 200
             /\ files[Walk(output_path).at] = [w |-> 3000, h |-> 2000, by |-> edits])
    /\ [](Running /\ i = 2 /\ SourceSize = [w |-> 4000, h |-> 3000]
          /\ req.operations = <<CropOp(0, 0, 3000, 2000), RotateOp(90)>>
          => before = SourceSize /\ image = [w |-> 3000, h |-> 2000])
    /\ [][AtOp("rotate") =>
             /\ pc' = "ops"
             /\ i' = i + 1
             /\ before' = image
             /\ image' = IF req.operations[i].angle \in {90, 270}
                         THEN Swapped(image) ELSE image]_vars

C8_Witness ==
    /\ Running
    /\ pc = "done"
    /\ response = 200
    /\ req.operations = <<RotateOp(90), CropOp(0, 0, 3000, 2000)>>
    /\ before = [w |-> 3000, h |-> 4000]
    /\ image = [w |-> 3000, h |-> 2000]
    /\ Walk(output_path).at = Append(Gallery, <<"photo", "_edited", ".jpg">>)

ResizedBoth ==
    /\ Running
    /\ i > 1
    /\ req.operations[i - 1].type = "resize"
    /\ Truthy(req.operations[i - 1], "width")
    /\ Truthy(req.operations[i - 1], "height")

(* C9 as stated: a resize that gives both width and height fits the image  *)
(* within that box, keeping its aspect ratio.                              *)
C9_ResizeFitsBox ==
    ResizedBoth =>
        image = Thumbnail(before, req.operations[i - 1].width,
                          req.operations[i - 1].height)

(* C9 as amended: a resize that gives both width and height makes the      *)
(* image exactly width x height, whatever its aspect ratio was.            *)
C9_ResizeForcesExact ==
    ResizedBoth =>
        image = [w |-> req.operations[i - 1].width,
                 h |-> req.operations[i - 1].height]

C9_Witness ==
    /\ ResizedBoth
    /\ before = [w |-> 4, h |-> 2]
    /\ image = [w |-> 2, h |-> 2]
    /\ image # Thumbnail(before, 2, 2)

BadKind(op) ==
    LET t == IF "type" \in op.keys THEN op.type ELSE "None"
    IN  \/ t \notin {"rotate", "crop", "resize", "flip"}
        \/ /\ t = "flip"
           /\ "direction" \in op.keys
           /\ op.direction \notin {"horizontal", "vertical"}

(* C10: if the operation at position k has a type outside rotate, crop,    *)
(* resize, flip, or is a flip in an unknown direction, apply_edits ends    *)
(* with a validation error (400) however many valid operations precede it; *)
(* the naming and save steps are not reached and nothing is written.       *)
C10_UnknownOpRejects ==
    \A k \in 1..Len(req.operations) :
        (Running /\ BadKind(req.operations[k])) =>
            /\ pc \in {"ops", "done"}
            /\ i <= k
            /\ pc = "done" => response = 400 /\ files = InitFiles

C10_Witness ==
    /\ Running
    /\ pc = "done"
    /\ response = 400
    /\ i = 2
    /\ Len(req.operations) = 2
    /\ req.operations[1] = RotateOp(90)
    /\ req.operations[2] = KindOp("blur")
    /\ image = Swapped(SourceSize)
    /\ files = InitFiles

(* ----------------------- claims: collision loop ----------------------- *)

(* The files the source's directory holds. *)
Siblings == {f \in DOMAIN files : Up(f) = Up(Source)}

(* C12: the collision loop of apply_edits has ended (the request is about  *)
(* to save) only after at most N+1 existence checks, N being the number of *)
(* files in the source's directory; the loop makes one check per counter   *)
(* value, so the counter it ends with is the number of checks made.        *)
C12_ScanBounded ==
    (req.kind = "edit" /\ pc = "save") => counter <= Cardinality(Siblings) + 1

(* ------------------------ claims: edit_upload ------------------------- *)

SameRequest ==
    /\ tasks[1].path = tasks[2].path
    /\ tasks[1].gallery_root = tasks[2].gallery_root
    /\ tasks[1].output_prefix = tasks[2].output_prefix
    /\ tasks[1].output_suffix = tasks[2].output_suffix

Holds(t) ==
    LET at == Walk(tasks[t].output_path).at
    IN  at \in DOMAIN files /\ files[at].by = t

(* C11: when two requests for the same source, prefix and suffix have both *)
(* been answered and one of them succeeded, then both succeeded, their     *)
(* output paths differ, and each output file still holds what its own      *)
(* request wrote: neither write replaced the other's file.                 *)
C11_TwoDistinctOutputs ==
    (/\ tasks[1].pc = "done"
     /\ tasks[2].pc = "done"
     /\ SameRequest
     /\ 200 \in {tasks[1].response, tasks[2].response})
    => /\ tasks[1].response = 200
       /\ tasks[2].response = 200
       /\ tasks[1].output_path # tasks[2].output_path
       /\ Holds(1)
       /\ Holds(2)

UploadedBy(t) == {f \in DOMAIN files : files[f].by = t}

(* C17: every file an edit_upload request has written lies inside the      *)
(* request's resolved gallery root, whatever the prefix, the suffix and    *)
(* the counter the collision loop chose; a request answered 403 has        *)
(* written nothing.                                                        *)
C17_UploadStaysInGallery ==
    \A t \in Tasks :
        /\ \A f \in UploadedBy(t) : Inside(f, tasks[t].gallery_base.parts)
        /\ tasks[t].response = 403 => UploadedBy(t) = {}

(* --------------------------- claims: sessions ------------------------- *)

(* The token was returned by create_session, has not been destroyed since, *)
(* and the clock is not past its expiry.                                   *)
CurrentlyValid(t) ==
    t \in DOMAIN issued /\ t \notin destroyed /\ now <= issued[t]

Exempt(path) ==
    \/ StartsWith(path, <<"/api/", "auth/">>)
    \/ StartsWith(path, <<"/login", ".html">>)
    \/ StartsWith(path, <<"/login">>)

Answered == result.call = "request"

(* C15: with AUTH_ENABLED, a request for a path that starts with none of   *)
(* /api/auth/, /login.html, /login reaches its handler exactly when its    *)
(* cookie is a currently valid session token; otherwise it is answered 401 *)
(* when the path starts with /api/ or ends in a static-asset extension,    *)
(* and with the login page in every other case.                            *)
C15_ProtectedNeedsSession ==
    (Answered /\ AUTH_ENABLED /\ ~Exempt(result.path)) =>
        /\ result.answer = "handler" <=> CurrentlyValid(result.token)
        /\ result.answer # "handler" =>
              result.answer =
                  IF \/ StartsWith(result.path, <<"/api/">>)
                     \/ EndsWithOneOf(result.path, static_extensions)
                  THEN "401" ELSE "login"

C15_Witness ==
    /\ Answered
    /\ AUTH_ENABLED
    /\ result.path = <<"/", "app", ".js">>
    /\ result.token = 1
    /\ 1 \in DOMAIN issued
    /\ 1 \in destroyed
    /\ result.answer = "401"

Validated == Answered /\ result.valid # "skipped"

(* Issued once and no longer in the store: destroyed, or found expired. *)
Gone(t) == t \in DOMAIN issued /\ t \notin DOMAIN sessions

(* C16: a validate_session call answers True exactly for a token that      *)
(* create_session returned, that has not been destroyed since and whose    *)
(* expiry the clock has not passed; a call that finds the token expired    *)
(* leaves it out of the store; and a token that has left the store stays   *)
(* out and is not validated by any later call.                             *)
C16_SessionLifecycle ==
    /\ [](Validated =>
            /\ result.valid = "yes" <=> CurrentlyValid(result.token)
            /\ (result.token \in DOMAIN issued /\ now > issued[result.token])
                  => result.token \notin DOMAIN sessions)
    /\ [][\A t \in DOMAIN issued :
            Gone(t) => /\ Gone(t)'
                       /\ ~(Validated' /\ result'.token = t /\ result'.valid = "yes")]_vars

C16_Witness ==
    /\ Validated
    /\ result.token = 1
    /\ result.valid = "no"
    /\ 1 \in DOMAIN issued
    /\ 1 \notin destroyed
    /\ now > issued[1]
    /\ 1 \notin DOMAIN sessions

====
